---- MODULE Spec2Model ----
(***************************************************************************)
(* network-topologer: Traceroute (traceroute.py) and NetworkTopologer      *)
(* (network_topologer.py) as a state machine.                              *)
(*                                                                         *)
(* One orchestration call (run / run_parallel) drives one Traceroute.run   *)
(* per destination.  A trace is cut into the steps at which it touches the *)
(* outside world: name resolution, socket creation, sending a probe,       *)
(* reading one packet, leaving the wait, recording the hop.                *)
(***************************************************************************)
EXTENDS Integers, Sequences, FiniteSets, TLC

\* ------------------------------------------------------------------ bounds
\* Largest hop-limit the model lets a trace probe (the code has no cap).
MaxTtl == 2
\* Largest number of orchestration calls on one aggregator.
MaxCalls == 2
\* Longest PathResult of the inputs of the graph derivations.
MaxHops == 3
\* Most packets a raw socket holds unread when one more arrives unasked.
MaxQueue == 2

\* --------------------------------------------------------- Python values
\* None where Python holds a str (addresses).
None == "None"
\* None where Python holds a number (icmp_type, rtt_ms).
NoInt == -1
\* Traceroute.__init__: per-probe timeout, in seconds.
timeout == 2
\* NetworkTopologer.run_parallel: upper bound of the default worker count.
DefaultWorkerCap == 32
\* _send_probe, line 82: the largest value setsockopt takes for IP_TTL (the
\* time-to-live of an IPv4 header is one byte).
IpTtlMax == 255
\* Traceroute.__init__: base UDP port of the probes.
port == 33434

\* ------------------------------------------------- simulated environment
\* socket.gethostbyname: None stands for socket.gaierror.
gethostbyname(h) ==
    CASE h = "h1" -> "D1"
      [] h = "h2" -> "D2"
      [] OTHER    -> None

\* The destination lists given to run / run_parallel.
FreeLists ==
    { <<>>, <<"h1">>, <<"bad">>, <<"h1", "h2">>, <<"h1", "bad">>,
      <<"bad", "h1">> }

WideLists == { <<"h1">> }

LostLists == { <<"h1">> }

SimLists == { <<"h1">>, <<"h2">>, <<"h1", "h2">>, <<"bad", "h1", "h2">> }

FoldLists == { <<"h1", "h2">>, <<"h1", "h2", "bad">> }

\* The values of the workers argument of run_parallel (NoInt: not given).
WorkerArgs == {NoInt, 0, 1, 2}

\* An IPv4 header of ihlWords 32-bit words: byte 0 is version 4 and IHL.
IPHeader(ihlWords) ==
    [k \in 1..(ihlWords * 4) |-> IF k = 1 THEN 64 + ihlWords ELSE 0]

\* An IPv4 packet carrying an ICMP header <<type, code, checksum>>.
IcmpPacket(ihlWords, type) == IPHeader(ihlWords) \o <<type, 0, 0, 0>>

TimeExceeded(src)    == [src |-> src, data |-> IcmpPacket(5, 11)]
DestUnreachable(src) == [src |-> src, data |-> IcmpPacket(5, 3)]
EchoReply(src)       == [src |-> src, data |-> IcmpPacket(5, 0)]
\* 24 bytes of header with options, byte 20 looks like a type 11, type is 0.
OptionsDecoy(src) ==
    [src |-> src, data |-> [IcmpPacket(6, 0) EXCEPT ![21] = 11]]
\* 24 bytes of header with options, then a type 3 header.
OptionsUnreachable(src) == [src |-> src, data |-> IcmpPacket(6, 3)]
\* Fewer than 20 bytes.
ShortPacket(src) == [src |-> src, data |-> <<69, 0, 0, 11>>]
\* 20 bytes or more, but the header length points past the end.
TruncatedPacket(src) == [src |-> src, data |-> IPHeader(6)]
\* IHL nibble 0: the type is read from byte 0 itself.
ZeroIhl(src) == [src |-> src, data |-> [IPHeader(5) EXCEPT ![1] = 64]]

\* The router that answers a probe at hop-limit ttl.
Router(ttl) == IF ttl = 1 THEN "R1" ELSE "R2"

\* What the network may answer to a probe (the empty sequence: nothing).
FreeResponses(dest_ip, ttl) ==
    { <<>>, <<TimeExceeded(Router(ttl))>>, <<DestUnreachable(dest_ip)>> }

WideResponses(dest_ip, ttl) ==
    FreeResponses(dest_ip, ttl) \cup
    { <<EchoReply(Router(ttl))>>, <<EchoReply(dest_ip)>>,
      <<DestUnreachable(Router(ttl))>>,
      <<ShortPacket(Router(ttl))>>,
      <<OptionsDecoy(Router(ttl))>>, <<OptionsUnreachable(dest_ip)>>,
      <<TruncatedPacket(Router(ttl))>>, <<ZeroIhl(Router(ttl))>>,
      <<EchoReply(Router(ttl)), TimeExceeded(Router(ttl))>> }

\* A fixed simulated network: one router, then the destination.
SimResponses(dest_ip, ttl) ==
    IF ttl = 1 THEN { <<TimeExceeded(IF dest_ip = "D1" THEN "R1" ELSE "R2")>> }
               ELSE { <<DestUnreachable(dest_ip)>> }

\* A destination no probe reaches: nothing answers ("lost"), or the router
\* at which the hop-limit runs out answers every probe ("routed").
LostResponses(world, ttl) ==
    IF world = "lost" THEN { <<>> } ELSE { <<TimeExceeded(Router(ttl))>> }

\* ------------------------------------------------------------------ state
VARIABLES
    env,          \* which network answers: "free", "wide", "sim", "fold",
                  \* "lost" or "routed"
    calls_left,   \* orchestration calls the caller will still make
    results,      \* NetworkTopologer.results: ordered dict, <<dest, hops>> pairs
    op,           \* the call in progress: "none", "run", "run_parallel"
    dests,        \* its destinations argument
    mpc,          \* position of the calling thread
    idx,          \* run: index of the destination of the for loop
    workers_arg,  \* run_parallel: its workers argument (NoInt: not given)
    max_workers,  \* run_parallel: size of the thread pool
    collected,    \* run_parallel: futures as_completed has yielded
    returned,     \* what the calls returned so far: [op, dests, value]
    tpc,          \* per trace: position in Traceroute.run
    exc,          \* per trace: class of the exception it raised
    dest_ip,      \* per trace: Traceroute.run dest_ip
    ttl,          \* per trace: Traceroute.run ttl
    hops,         \* per trace: Traceroute.run hops
    send_sock,    \* per trace: the UDP socket: "unset", "open", "closed"
    recv_sock,    \* per trace: the raw ICMP socket
    rq,           \* per trace: packets queued on the raw socket
    probes,       \* per trace: the probes sendto has sent: <<ttl, dest_port>>
    addr,         \* per trace: _receive_reply addr
    icmp_type,    \* per trace: _receive_reply icmp_type
    rtt_ms,       \* per trace: _receive_reply rtt_ms
    elapsed,      \* per trace: time.time() - start at the last clock read
    waited,       \* per trace: seconds since _receive_reply was called
    passed,       \* the caller passes results (FALSE: None, self.results)
    graph_in,     \* the results a derivation works on (its local results)
    adjacency,    \* value returned by build_adjacency
    edge_latencies, \* value returned by build_adjacency_with_latency
    built         \* the derivations called: "adjacency", "latency", and
                  \* "adjacency_again", "latency_again" for a second call

aggVars   == <<results, op, dests, mpc, idx, workers_arg, max_workers, collected,
              returned>>
sockVars  == <<send_sock, recv_sock, rq, probes>>
replyVars == <<addr, icmp_type, rtt_ms, elapsed, waited>>
traceVars == <<tpc, exc, dest_ip, ttl, hops>>
graphVars == <<passed, graph_in, adjacency, edge_latencies, built>>
vars == <<env, calls_left, aggVars, traceVars, sockVars, replyVars, graphVars>>

Tasks == DOMAIN tpc

\* ------------------------------------------------------- ordered dict ops
DictKeys(d) == {d[k][1] : k \in DOMAIN d}

DictHas(d, key) == \E k \in DOMAIN d : d[k][1] = key

DictGet(d, key) == d[CHOOSE k \in DOMAIN d : d[k][1] = key][2]

\* d[key] = value: an existing key keeps its place, a new one goes last.
DictSet(d, key, value) ==
    IF DictHas(d, key)
    THEN [k \in DOMAIN d |-> IF d[k][1] = key THEN <<key, value>> ELSE d[k]]
    ELSE Append(d, <<key, value>>)

\* ----------------------------------------------------------- exceptions.py
TracerouteErrors ==
    {"TracerouteError", "DNSResolveError", "TraceroutePermissionError"}

\* except TracerouteError: the class and its subclasses.
IsTracerouteError(e) == e \in TracerouteErrors

\* --------------------------------------------------------- traceroute.py
\* A variant of _parse_icmp_type that takes the IP header for 20 bytes.
ParseFixedHeader(data) ==
    IF Len(data) < 24 THEN NoInt ELSE data[21]

\* Traceroute._parse_icmp_type: NoInt for None.
_parse_icmp_type(data) ==
    IF Len(data) < 20 THEN NoInt
    ELSE LET ver_ihl == data[1]
             ihl == (ver_ihl % 16) * 4
         IN IF Len(data) < ihl + 4 THEN NoInt ELSE data[ihl + 1]

\* _receive_reply: the test that leaves the wait loop.
EndsWait(type) == type \in {11, 3}

\* A variant of the test that ends the trace: the reply type is not looked at.
ReachedByAddressOnly(a, type, ip) == a = ip

\* run: the test that ends the trace after a recorded reply.
ReachedDestination(a, type, ip) == a = ip \/ (type # NoInt /\ type = 3)

\* A variant of run that leaves ttl += 1 out.
RepeatTtl(t) == t

\* run: ttl += 1.
NextTtl(t) == t + 1

\* A variant of DestPort that sends every probe to the base port.
BasePortOnly(t) == port

\* run, line 132: dest_port = base_port + ttl
DestPort(t) == port + t

\* A variant of the clock of _receive_reply in which start moves to the
\* moment of the last packet read.
ElapsedRestarted(e, dt) == dt

\* _receive_reply, line 101: time.time() - start, start set once (line 96):
\* e seconds at the last read, dt seconds later.
ElapsedAt(e, dt) == e + dt

\* A variant of HopFor that records the address of a reply without its
\* round-trip time.
HopWithoutTime(t, a, r) == <<t, a, NoInt>>

\* The hop run appends for the reply _receive_reply returned.
HopFor(t, a, r) == IF a = None THEN <<t, None, NoInt>> ELSE <<t, a, r>>

\* Seconds that may pass before _receive_reply reads the clock again.
Delays == IF env = "wide" THEN 0..1 ELSE {0}

DestLists ==
    CASE env = "sim"  -> SimLists
      [] env = "wide" -> WideLists
      [] env = "fold" -> FoldLists
      [] env \in {"lost", "routed"} -> LostLists
      [] OTHER        -> FreeLists

Responses(ip, t) ==
    CASE env = "sim"  -> SimResponses(ip, t)
      [] env = "wide" -> WideResponses(ip, t)
      [] env \in {"lost", "routed"} -> LostResponses(env, t)
      [] OTHER        -> FreeResponses(ip, t)

\* The largest hop-limit a trace probes: the bound of the model, or, against
\* a destination that is never reached, the largest the socket takes.
TtlCap == IF env \in {"lost", "routed"} THEN IpTtlMax ELSE MaxTtl

\* A thread of the pool takes the tasks in the order of submission.
Started(i) == tpc[i] # "new"
Finished(i) == tpc[i] \in {"done", "failed"}
Running == {j \in Tasks : Started(j) /\ ~Finished(j)}

\* A variant of MayStart in which run starts the traces without waiting
\* for the one before.
MayStartAtOnce(i) ==
    /\ tpc[i] = "new"
    /\ \/ op = "run" /\ mpc = "run_loop"
       \/ /\ op = "run_parallel"
          /\ \A j \in Tasks : j < i => Started(j)
          /\ Cardinality(Running) < max_workers

\* Trace i may start: run has reached it in its for loop (line 42), or a
\* worker of the pool of run_parallel is free (lines 74-75).
MayStart(i) ==
    /\ tpc[i] = "new"
    /\ \/ op = "run" /\ mpc = "run_loop" /\ idx = i
       \/ /\ op = "run_parallel"
          /\ \A j \in Tasks : j < i => Started(j)
          /\ Cardinality(Running) < max_workers

\* A variant of Resolve in which run creates the sockets before it resolves
\* the destination.
ResolveAfterSockets(i) ==
    /\ MayStart(i)
    /\ send_sock' = [send_sock EXCEPT ![i] = "open"]
    /\ recv_sock' = [recv_sock EXCEPT ![i] = "open"]
    /\ LET ip == gethostbyname(dests[i])
       IN IF ip = None
          THEN /\ tpc' = [tpc EXCEPT ![i] = "failed"]
               /\ exc' = [exc EXCEPT ![i] = "DNSResolveError"]
               /\ UNCHANGED dest_ip
          ELSE /\ tpc' = [tpc EXCEPT ![i] = "sockets"]
               /\ dest_ip' = [dest_ip EXCEPT ![i] = ip]
               /\ UNCHANGED exc
    /\ UNCHANGED <<env, calls_left, aggVars, ttl, hops, rq, probes, replyVars,
                   graphVars>>

\* run, line 123: tracer.run(dest) starts and resolves the destination.
Resolve(i) ==
    /\ MayStart(i)
    /\ LET ip == gethostbyname(dests[i])
       IN IF ip = None
          THEN /\ tpc' = [tpc EXCEPT ![i] = "failed"]
               /\ exc' = [exc EXCEPT ![i] = "DNSResolveError"]
               /\ UNCHANGED dest_ip
          ELSE /\ tpc' = [tpc EXCEPT ![i] = "sockets"]
               /\ dest_ip' = [dest_ip EXCEPT ![i] = ip]
               /\ UNCHANGED exc
    /\ UNCHANGED <<env, calls_left, aggVars, ttl, hops, sockVars, replyVars,
                   graphVars>>

\* _create_sockets: the raw socket is refused (PermissionError).
CreateSocketsDenied(i) ==
    /\ tpc[i] = "sockets"
    /\ tpc' = [tpc EXCEPT ![i] = "failed"]
    /\ exc' = [exc EXCEPT ![i] = "TraceroutePermissionError"]
    /\ UNCHANGED <<env, calls_left, aggVars, dest_ip, ttl, hops, sockVars,
                   replyVars, graphVars>>

\* _create_sockets: the raw socket is open, then socket() of the UDP socket
\* (bound = FALSE) or its bind (bound = TRUE) raises OSError.
CreateSocketsOSError(i) ==
    /\ tpc[i] = "sockets"
    /\ \E created \in BOOLEAN :
          /\ recv_sock' = [recv_sock EXCEPT ![i] = "open"]
          /\ send_sock' = [send_sock EXCEPT ![i] =
                              IF created THEN "open" ELSE "unset"]
    /\ tpc' = [tpc EXCEPT ![i] = "failed"]
    /\ exc' = [exc EXCEPT ![i] = "OSError"]
    /\ UNCHANGED <<env, calls_left, aggVars, dest_ip, ttl, hops, rq, probes,
                   replyVars, graphVars>>

\* _create_sockets returns both sockets; run sets ttl = 1.
CreateSockets(i) ==
    /\ tpc[i] = "sockets"
    /\ recv_sock' = [recv_sock EXCEPT ![i] = "open"]
    /\ send_sock' = [send_sock EXCEPT ![i] = "open"]
    /\ ttl' = [ttl EXCEPT ![i] = 1]
    /\ tpc' = [tpc EXCEPT ![i] = "send"]
    /\ UNCHANGED <<env, calls_left, aggVars, exc, dest_ip, hops, rq, probes,
                   replyVars, graphVars>>

\* A variant of Closed for traces that share one pair of sockets: closing
\* it closes the sockets of every trace.
ClosedForAll(socks, i) == [j \in DOMAIN socks |-> "closed"]

\* run, finally: both sockets are closed; what they queued is gone.
Closed(socks, i) == [socks EXCEPT ![i] = "closed"]

\* Every open raw ICMP socket of the host gets a copy of an ICMP packet:
\* the socket of _create_sockets is bound to no probe and filters nothing.
\* (The queue of a socket whose trace has ended is never read: not kept.)
Deliver(queues, socks, pkts) ==
    [j \in DOMAIN queues |->
        IF socks[j] = "open" /\ ~Finished(j) THEN queues[j] \o pkts
                                             ELSE queues[j]]

\* _send_probe raises TracerouteError: sendto failed.
SendProbeFails(i) ==
    /\ tpc[i] = "send"
    /\ ttl[i] <= MaxTtl
    /\ tpc' = [tpc EXCEPT ![i] = "failed"]
    /\ exc' = [exc EXCEPT ![i] = "TracerouteError"]
    /\ send_sock' = Closed(send_sock, i)
    /\ recv_sock' = Closed(recv_sock, i)
    /\ rq' = [rq EXCEPT ![i] = <<>>]
    /\ UNCHANGED <<env, calls_left, aggVars, dest_ip, ttl, hops, probes,
                   replyVars, graphVars>>

\* A variant of SetTtlFails in which setsockopt stands inside the try of
\* _send_probe: the error leaves as TracerouteError.
SetTtlFailsWrapped(i) ==
    /\ tpc[i] = "send"
    /\ ttl[i] > IpTtlMax
    /\ tpc' = [tpc EXCEPT ![i] = "failed"]
    /\ exc' = [exc EXCEPT ![i] = "TracerouteError"]
    /\ send_sock' = Closed(send_sock, i)
    /\ recv_sock' = Closed(recv_sock, i)
    /\ rq' = [rq EXCEPT ![i] = <<>>]
    /\ UNCHANGED <<env, calls_left, aggVars, dest_ip, ttl, hops, probes,
                   replyVars, graphVars>>

\* _send_probe, line 82: setsockopt(SOL_IP, IP_TTL, ttl) raises OSError for
\* a ttl above 255, outside the try of line 83; run, finally: the sockets
\* are closed.
SetTtlFails(i) ==
    /\ tpc[i] = "send"
    /\ ttl[i] > IpTtlMax
    /\ tpc' = [tpc EXCEPT ![i] = "failed"]
    /\ exc' = [exc EXCEPT ![i] = "OSError"]
    /\ send_sock' = Closed(send_sock, i)
    /\ recv_sock' = Closed(recv_sock, i)
    /\ rq' = [rq EXCEPT ![i] = <<>>]
    /\ UNCHANGED <<env, calls_left, aggVars, dest_ip, ttl, hops, probes,
                   replyVars, graphVars>>

\* _send_probe puts one probe on the wire; _receive_reply reads start.
SendProbe(i) ==
    /\ tpc[i] = "send"
    /\ ttl[i] <= TtlCap
    /\ \E pkts \in Responses(dest_ip[i], ttl[i]) :
          rq' = Deliver(rq, recv_sock, pkts)
    /\ addr' = [addr EXCEPT ![i] = None]
    /\ icmp_type' = [icmp_type EXCEPT ![i] = NoInt]
    /\ rtt_ms' = [rtt_ms EXCEPT ![i] = NoInt]
    /\ elapsed' = [elapsed EXCEPT ![i] = 0]
    /\ waited' = [waited EXCEPT ![i] = 0]
    /\ probes' = [probes EXCEPT ![i] = Append(@, <<ttl[i], DestPort(ttl[i])>>)]
    /\ tpc' = [tpc EXCEPT ![i] = "recv"]
    /\ UNCHANGED <<env, calls_left, aggVars, exc, dest_ip, ttl, hops,
                   send_sock, recv_sock, graphVars>>

\* run, lines 138-148: _receive_reply has returned (a, type, r) and left
\* queue on the raw socket; the hop is appended, and the trace ends (finally:
\* the sockets are closed) or goes on.
RecordHop(i, a, type, r, queue) ==
    /\ addr' = [addr EXCEPT ![i] = a]
    /\ icmp_type' = [icmp_type EXCEPT ![i] = type]
    /\ rtt_ms' = [rtt_ms EXCEPT ![i] = r]
    /\ elapsed' = [elapsed EXCEPT ![i] = 0]
    /\ waited' = [waited EXCEPT ![i] = 0]
    /\ hops' = [hops EXCEPT ![i] = Append(@, HopFor(ttl[i], a, r))]
    /\ IF a # None /\ ReachedDestination(a, type, dest_ip[i])
       THEN /\ tpc' = [tpc EXCEPT ![i] = "done"]
            /\ send_sock' = Closed(send_sock, i)
            /\ recv_sock' = Closed(recv_sock, i)
            /\ rq' = [rq EXCEPT ![i] = <<>>]
            /\ UNCHANGED ttl
       ELSE /\ tpc' = [tpc EXCEPT ![i] = "send"]
            /\ ttl' = [ttl EXCEPT ![i] = NextTtl(@)]
            /\ rq' = [rq EXCEPT ![i] = queue]
            /\ UNCHANGED <<send_sock, recv_sock>>

\* _receive_reply, one turn of the loop that reads a packet: a packet that
\* ends the wait is returned to run, any other is kept in addr, icmp_type,
\* rtt_ms and the loop goes on.
RecvPacket(i) ==
    /\ tpc[i] = "recv"
    /\ rq[i] # <<>>
    /\ \E dt \in Delays :
          /\ timeout - ElapsedAt(elapsed[i], dt) > 0
          /\ LET pkt == Head(rq[i])
                 type == _parse_icmp_type(pkt.data)
                 r == ElapsedAt(elapsed[i], dt) * 1000
             IN IF EndsWait(type)
                THEN RecordHop(i, pkt.src, type, r, Tail(rq[i]))
                ELSE /\ addr' = [addr EXCEPT ![i] = pkt.src]
                     /\ icmp_type' = [icmp_type EXCEPT ![i] = type]
                     /\ rtt_ms' = [rtt_ms EXCEPT ![i] = r]
                     /\ elapsed' = [elapsed EXCEPT ![i] = ElapsedAt(@, dt)]
                     /\ waited' = [waited EXCEPT ![i] = @ + dt]
                     /\ rq' = [rq EXCEPT ![i] = Tail(@)]
                     /\ UNCHANGED <<tpc, ttl, hops, send_sock, recv_sock>>
    /\ UNCHANGED <<env, calls_left, aggVars, exc, dest_ip, probes, graphVars>>

\* While trace i waits, an ICMP packet that answers none of its probes
\* reaches the host: an echo reply of a stranger.
StrayPacket(i) ==
    /\ tpc[i] = "recv"
    /\ Len(rq[i]) < MaxQueue
    /\ rq' = Deliver(rq, recv_sock, <<EchoReply("X")>>)
    /\ UNCHANGED <<env, calls_left, aggVars, traceVars, send_sock, recv_sock,
                   probes, replyVars, graphVars>>

\* _receive_reply leaves the loop with what it holds: select returns
\* nothing, or time_left <= 0.
RecvTimeout(i) ==
    /\ tpc[i] = "recv"
    /\ \/ rq[i] = <<>>
       \/ \E dt \in Delays : timeout - ElapsedAt(elapsed[i], dt) <= 0
    /\ RecordHop(i, addr[i], icmp_type[i], rtt_ms[i], rq[i])
    /\ UNCHANGED <<env, calls_left, aggVars, exc, dest_ip, probes, graphVars>>

\* _receive_reply leaves the loop with what it holds: select reported a
\* packet and recvfrom raises socket.error.
RecvError(i) ==
    /\ tpc[i] = "recv"
    /\ rq[i] # <<>>
    /\ RecordHop(i, addr[i], icmp_type[i], rtt_ms[i], rq[i])
    /\ UNCHANGED <<env, calls_left, aggVars, exc, dest_ip, probes, graphVars>>

\* ------------------------------------------------- network_topologer.py
Min(a, b) == IF a < b THEN a ELSE b

\* A variant of MaxWorkers that does not look at the workers argument.
MaxWorkersDefaultOnly(workers, destinations) ==
    IF destinations # <<>> THEN Min(Len(destinations), DefaultWorkerCap) ELSE 1

\* run_parallel: workers or (min(len(destinations), 32) if destinations else 1)
MaxWorkers(workers, destinations) ==
    IF workers # NoInt /\ workers # 0 THEN workers
    ELSE IF destinations # <<>>
         THEN Min(Len(destinations), DefaultWorkerCap)
         ELSE 1

\* run_parallel: self.results = {}
ResetResults(old) == <<>>

\* run: self.results is left as the earlier calls filled it.
KeepResults(old) == old

\* A variant of StoredHops that stores the hops a failed trace had recorded.
StoredPartialHops(i) == hops[i]

\* What the orchestrator stores for a trace that ended: the hops, or the
\* empty list for a TracerouteError (run lines 45-50, _worker lines 67-72).
StoredHops(i) == IF tpc[i] = "done" THEN hops[i] ELSE <<>>

\* The exception of trace i is one the orchestrator does not catch.
Escapes(i) == tpc[i] = "failed" /\ ~IsTracerouteError(exc[i])

FreshTraces(n) ==
    /\ tpc' = [i \in 1..n |-> "new"]
    /\ exc' = [i \in 1..n |-> "none"]
    /\ dest_ip' = [i \in 1..n |-> None]
    /\ ttl' = [i \in 1..n |-> 0]
    /\ hops' = [i \in 1..n |-> <<>>]
    /\ send_sock' = [i \in 1..n |-> "unset"]
    /\ recv_sock' = [i \in 1..n |-> "unset"]
    /\ rq' = [i \in 1..n |-> <<>>]
    /\ probes' = [i \in 1..n |-> <<>>]
    /\ addr' = [i \in 1..n |-> None]
    /\ icmp_type' = [i \in 1..n |-> NoInt]
    /\ rtt_ms' = [i \in 1..n |-> NoInt]
    /\ elapsed' = [i \in 1..n |-> 0]
    /\ waited' = [i \in 1..n |-> 0]

\* The caller calls NetworkTopologer.run(destinations).
CallRun ==
    /\ mpc = "idle"
    /\ calls_left > 0
    /\ \E destinations \in DestLists :
          /\ dests' = destinations
          /\ FreshTraces(Len(destinations))
    /\ calls_left' = calls_left - 1
    /\ op' = "run"
    /\ results' = KeepResults(results)
    /\ idx' = 1
    /\ mpc' = "run_loop"
    /\ UNCHANGED <<env, workers_arg, max_workers, collected, returned, graphVars>>

\* run, lines 42-50: tracer.run(dest) has ended; its outcome is stored, or
\* its exception leaves run.
RunStore ==
    /\ mpc = "run_loop"
    /\ idx \in Tasks
    /\ Finished(idx)
    /\ IF Escapes(idx)
       THEN /\ mpc' = "raised"
            /\ UNCHANGED <<results, idx>>
       ELSE /\ results' = DictSet(results, dests[idx], StoredHops(idx))
            /\ idx' = idx + 1
            /\ UNCHANGED mpc
    /\ UNCHANGED <<env, calls_left, op, dests, workers_arg, max_workers,
                   collected, returned, traceVars, sockVars, replyVars,
                   graphVars>>

\* run, line 52: return self.results.
RunReturn ==
    /\ mpc = "run_loop"
    /\ idx = Len(dests) + 1
    /\ mpc' = "idle"
    /\ returned' = Append(returned,
                          [op |-> op, dests |-> dests, value |-> results])
    /\ UNCHANGED <<env, calls_left, results, op, dests, idx, workers_arg,
                   max_workers, collected, traceVars, sockVars, replyVars,
                   graphVars>>

\* The caller calls NetworkTopologer.run_parallel(destinations, workers):
\* lines 61-75, every destination is submitted to the pool.
CallRunParallel ==
    /\ mpc = "idle"
    /\ calls_left > 0
    /\ \E destinations \in DestLists, workers \in WorkerArgs :
          /\ dests' = destinations
          /\ workers_arg' = workers
          /\ max_workers' = MaxWorkers(workers, destinations)
          /\ FreshTraces(Len(destinations))
    /\ calls_left' = calls_left - 1
    /\ op' = "run_parallel"
    /\ results' = ResetResults(results)
    /\ collected' = {}
    /\ mpc' = "collect"
    /\ UNCHANGED <<env, idx, returned, graphVars>>

\* run_parallel, lines 76-78: as_completed yields a finished future.
Collect(i) ==
    /\ mpc = "collect"
    /\ i \in Tasks \ collected
    /\ Finished(i)
    /\ IF Escapes(i)
       THEN /\ mpc' = "raising"
            /\ UNCHANGED <<results, collected>>
       ELSE /\ results' = DictSet(results, dests[i], StoredHops(i))
            /\ collected' = collected \cup {i}
            /\ UNCHANGED mpc
    /\ UNCHANGED <<env, calls_left, op, dests, idx, workers_arg, max_workers,
                   returned, traceVars, sockVars, replyVars, graphVars>>

\* run_parallel, line 80: every future was collected, the pool is shut down.
ParallelReturn ==
    /\ mpc = "collect"
    /\ collected = Tasks
    /\ mpc' = "idle"
    /\ returned' = Append(returned,
                          [op |-> op, dests |-> dests, value |-> results])
    /\ UNCHANGED <<env, calls_left, results, op, dests, idx, workers_arg,
                   max_workers, collected, traceVars, sockVars, replyVars,
                   graphVars>>

\* run_parallel: fut.result() raised; leaving the with block waits for
\* every task of the pool, then the exception leaves run_parallel.
ParallelRaise ==
    /\ mpc = "raising"
    /\ \A j \in Tasks : Finished(j)
    /\ mpc' = "raised"
    /\ UNCHANGED <<env, calls_left, results, op, dests, idx, workers_arg,
                   max_workers, collected, returned, traceVars, sockVars,
                   replyVars, graphVars>>

\* ---------------------------------------------------- graph derivations
\* A variant of Ips that keeps the hops that timed out.
IpsUnfiltered(path) == [k \in DOMAIN path |-> path[k][2]]

\* build_adjacency, line 100: ips = [ip for _, ip, _ in hops if ip is not None]
Ips(path) ==
    LET present == SelectSeq(path, LAMBDA h : h[2] # None)
    IN [k \in DOMAIN present |-> present[k][2]]

\* A variant of SetDefaultAdd that creates the set of a and adds nothing.
SetDefaultOnly(adj, a, b) ==
    IF a \in DOMAIN adj THEN adj ELSE adj @@ (a :> {})

\* adjacency.setdefault(a, set()).add(b)
SetDefaultAdd(adj, a, b) ==
    IF a \in DOMAIN adj THEN [adj EXCEPT ![a] = @ \cup {b}]
                        ELSE adj @@ (a :> {b})

\* build_adjacency, lines 101-104: for i in range(len(ips) - 1)
RECURSIVE AddEdges(_, _, _)
AddEdges(adj, ips, i) ==
    IF i > Len(ips) - 1 THEN adj
    ELSE AddEdges(SetDefaultAdd(adj, ips[i], ips[i + 1]), ips, i + 1)

\* build_adjacency, lines 98-104: for _, hops in results.items()
RECURSIVE AdjacencyFrom(_, _, _)
AdjacencyFrom(adj, rs, k) ==
    IF k > Len(rs) THEN adj
    ELSE AdjacencyFrom(AddEdges(adj, Ips(rs[k][2]), 1), rs, k + 1)

\* NetworkTopologer.build_adjacency: a dict ip -> set of next-hop ips.
build_adjacency(rs) == AdjacencyFrom(<<>>, rs, 1)

\* build_adjacency_with_latency, lines 126-128: the (ip, rtt) pairs of the
\* hops with ip is not None and rtt is not None.
IpRttPairs(path) ==
    LET present == SelectSeq(path, LAMBDA h : h[2] # None /\ h[3] # NoInt)
    IN [k \in DOMAIN present |-> <<present[k][2], present[k][3]>>]

\* Python truth value of a number.
Truthy(x) == x # 0

\* line 135: dst_rtt - src_rtt if (dst_rtt and src_rtt) else dst_rtt
DeltaMs(src_rtt, dst_rtt) ==
    IF Truthy(dst_rtt) /\ Truthy(src_rtt) THEN dst_rtt - src_rtt ELSE dst_rtt

\* A variant of KeepsSample that keeps a delta of 0.
KeepsNonNegative(delta_ms) == delta_ms >= 0

\* line 136: if delta_ms and delta_ms > 0
KeepsSample(delta_ms) == Truthy(delta_ms) /\ delta_ms > 0

\* A variant of SetDefaultAppend that starts the list of the edge anew.
SetSample(lat, edge, delta_ms) ==
    IF edge \in DOMAIN lat THEN [lat EXCEPT ![edge] = <<delta_ms>>]
                           ELSE lat @@ (edge :> <<delta_ms>>)

\* edge_latencies.setdefault(edge, []).append(delta_ms)
SetDefaultAppend(lat, edge, delta_ms) ==
    IF edge \in DOMAIN lat THEN [lat EXCEPT ![edge] = Append(@, delta_ms)]
                           ELSE lat @@ (edge :> <<delta_ms>>)

\* build_adjacency_with_latency, lines 130-138
RECURSIVE AddSamples(_, _, _)
AddSamples(lat, pairs, i) ==
    IF i > Len(pairs) - 1 THEN lat
    ELSE LET delta_ms == DeltaMs(pairs[i][2], pairs[i + 1][2])
             edge == <<pairs[i][1], pairs[i + 1][1]>>
         IN AddSamples(IF KeepsSample(delta_ms)
                       THEN SetDefaultAppend(lat, edge, delta_ms)
                       ELSE lat,
                       pairs, i + 1)

\* build_adjacency_with_latency, lines 124-138: for _, hops in results.items()
RECURSIVE LatencyFrom(_, _, _)
LatencyFrom(lat, rs, k) ==
    IF k > Len(rs) THEN lat
    ELSE LatencyFrom(AddSamples(lat, IpRttPairs(rs[k][2]), 1), rs, k + 1)

\* NetworkTopologer.build_adjacency_with_latency: a dict (src, dst) -> samples.
build_adjacency_with_latency(rs) == LatencyFrom(<<>>, rs, 1)

\* The hops a PathResult of the derivations' input may hold at any position.
HopValues ==
    { <<None, NoInt>>, <<"A", 0>>, <<"A", 10>>, <<"B", 20>>, <<"B", NoInt>> }

\* The PathResults of n hops, hop_index 1..n.
PathsOfLen(n) ==
    { [k \in 1..n |-> <<k, f[k][1], f[k][2]>>] : f \in [1..n -> HopValues] }

PathResults == UNION { PathsOfLen(n) : n \in 0..MaxHops }

ShorterPathResults == UNION { PathsOfLen(n) : n \in 0..(MaxHops - 1) }

\* The ResultSets given to the derivations: no, one or two destinations
\* (the second PathResult one hop shorter than the longest).
ResultSets ==
    {<<>>} \cup { <<<<"h1", p>>>> : p \in PathResults }
           \cup { << <<"h1", p>>, <<"h2", q>> >> :
                       p \in PathResults, q \in ShorterPathResults }

\* The PathResults tracer.run returns in the specification of the fold:
\* two paths with the edge A -> B and different RTT deltas, one of them
\* across a timeout, and a path without an edge.
FoldPaths ==
    { << <<1, "A", 10>>, <<2, "B", 20>> >>,
      << <<1, "A", 0>>, <<2, None, NoInt>>, <<3, "B", 20>> >>,
      << <<1, None, NoInt>>, <<2, "B", 20>> >> }

\* The ResultSets a caller passes in the specification of the fold.
FoldInputs ==
    { << <<"h1", p>>, <<"h2", q>> >> :
          p \in FoldPaths,
          q \in { << <<1, "A", 10>>, <<2, "B", 20>> >> } }

\* _worker, lines 67-72: tracer.run(dest) as one step, returning any
\* PathResult of FoldPaths or raising DNSResolveError.
TracerRun(i) ==
    /\ MayStart(i)
    /\ LET ip == gethostbyname(dests[i])
       IN IF ip = None
          THEN /\ tpc' = [tpc EXCEPT ![i] = "failed"]
               /\ exc' = [exc EXCEPT ![i] = "DNSResolveError"]
               /\ UNCHANGED <<dest_ip, hops>>
          ELSE /\ tpc' = [tpc EXCEPT ![i] = "done"]
               /\ dest_ip' = [dest_ip EXCEPT ![i] = ip]
               /\ \E path \in FoldPaths : hops' = [hops EXCEPT ![i] = path]
               /\ UNCHANGED exc
    /\ UNCHANGED <<env, calls_left, aggVars, ttl, sockVars, replyVars,
                   graphVars>>

\* lines 93-94, 119-120: if results is None: results = self.results
DerivationInput == IF passed THEN graph_in ELSE results

\* A variant of the derivations that drops the hops without address from
\* the lists of its input.
ResultsFiltered(rs) ==
    [k \in DOMAIN rs |->
        <<rs[k][1], SelectSeq(rs[k][2], LAMBDA h : h[2] # None)>>]

\* What a derivation leaves of the ResultSet it was given: results.items()
\* and the hops are read, ips and pairs are new lists.
ResultsAfter(rs) == rs

\* The caller may call a derivation a second time.
Repeats == env = "fold"

\* The caller derives from the aggregator's own ResultSet (None passed)
\* once a call has returned it.
MayBuild(name, again) ==
    /\ mpc = "idle"
    /\ passed \/ returned # <<>>
    /\ \/ name \notin built
       \/ Repeats /\ again \notin built

Called(name, again) == built \cup {IF name \in built THEN again ELSE name}

\* The ResultSet of the aggregator and the local results after a derivation
\* has run on DerivationInput.
InputLeft ==
    /\ graph_in' = ResultsAfter(DerivationInput)
    /\ results' = IF passed THEN results ELSE ResultsAfter(results)

\* The caller calls build_adjacency(results): results is graph_in, or None.
BuildAdjacency ==
    /\ MayBuild("adjacency", "adjacency_again")
    /\ adjacency' = build_adjacency(DerivationInput)
    /\ built' = Called("adjacency", "adjacency_again")
    /\ InputLeft
    /\ UNCHANGED <<env, calls_left, op, dests, mpc, idx, workers_arg,
                   max_workers, collected, returned, traceVars, sockVars,
                   replyVars, passed, edge_latencies>>

\* The caller calls build_adjacency_with_latency(results).
BuildLatency ==
    /\ MayBuild("latency", "latency_again")
    /\ edge_latencies' = build_adjacency_with_latency(DerivationInput)
    /\ built' = Called("latency", "latency_again")
    /\ InputLeft
    /\ UNCHANGED <<env, calls_left, op, dests, mpc, idx, workers_arg,
                   max_workers, collected, returned, traceVars, sockVars,
                   replyVars, passed, adjacency>>

\* ------------------------------------------------------ specifications
InitAggregator ==
    /\ results = <<>>
    /\ op = "none"
    /\ dests = <<>>
    /\ mpc = "idle"
    /\ idx = 0
    /\ workers_arg = NoInt
    /\ max_workers = 0
    /\ collected = {}
    /\ returned = <<>>
    /\ tpc = <<>>
    /\ exc = <<>>
    /\ dest_ip = <<>>
    /\ ttl = <<>>
    /\ hops = <<>>
    /\ send_sock = <<>>
    /\ recv_sock = <<>>
    /\ rq = <<>>
    /\ probes = <<>>
    /\ addr = <<>>
    /\ icmp_type = <<>>
    /\ rtt_ms = <<>>
    /\ elapsed = <<>>
    /\ waited = <<>>

NoGraphs ==
    /\ passed = TRUE
    /\ graph_in = <<>>
    /\ adjacency = <<>>
    /\ edge_latencies = <<>>
    /\ built = {}

\* The steps of a trace in which the environment does not fail.
TraceStep(i) ==
    \/ Resolve(i)
    \/ CreateSockets(i)
    \/ SendProbe(i)
    \/ RecvPacket(i)
    \/ RecvTimeout(i)

\* The steps in which the operating system refuses something.
FaultStep(i) ==
    \/ CreateSocketsDenied(i)
    \/ CreateSocketsOSError(i)
    \/ SendProbeFails(i)
    \/ RecvError(i)

\* A new NetworkTopologer, one call of run or run_parallel, any fault.
Init ==
    /\ env = "free"
    /\ calls_left = 1
    /\ InitAggregator
    /\ NoGraphs

Next ==
    \/ CallRun
    \/ RunStore
    \/ RunReturn
    \/ CallRunParallel
    \/ \E i \in Tasks : Collect(i)
    \/ ParallelReturn
    \/ ParallelRaise
    \/ \E i \in Tasks : TraceStep(i)
    \/ \E i \in Tasks : FaultStep(i)

Spec == Init /\ [][Next]_vars

\* One trace, run by run, against every kind of packet, stray packets
\* included, and with the clock advancing while _receive_reply waits.
InitWide ==
    /\ env = "wide"
    /\ calls_left = 1
    /\ InitAggregator
    /\ NoGraphs

NextWide ==
    \/ CallRun
    \/ RunStore
    \/ RunReturn
    \/ \E i \in Tasks : TraceStep(i)
    \/ \E i \in Tasks : FaultStep(i)
    \/ \E i \in Tasks : StrayPacket(i)

SpecWide == InitWide /\ [][NextWide]_vars

\* Several calls on one NetworkTopologer against the fixed simulated
\* network, the operating system refusing nothing.
InitSim ==
    /\ env = "sim"
    /\ calls_left = MaxCalls
    /\ InitAggregator
    /\ NoGraphs

NextSim ==
    \/ CallRun
    \/ RunStore
    \/ RunReturn
    \/ CallRunParallel
    \/ \E i \in Tasks : Collect(i)
    \/ ParallelReturn
    \/ \E i \in Tasks : TraceStep(i)

SpecSim == InitSim /\ [][NextSim]_vars

\* The derivations applied to every ResultSet of ResultSets.
InitGraph ==
    /\ env = "free"
    /\ calls_left = 0
    /\ InitAggregator
    /\ passed = TRUE
    /\ graph_in \in ResultSets
    /\ adjacency = <<>>
    /\ edge_latencies = <<>>
    /\ built = {}

NextGraph ==
    \/ BuildAdjacency
    \/ BuildLatency

SpecGraph == InitGraph /\ [][NextGraph]_vars

\* One call of run_parallel whose traces return PathResults of FoldPaths,
\* and the derivations, each called up to twice, on a ResultSet the caller
\* passes or on the aggregator's own.
InitFold ==
    /\ env = "fold"
    /\ calls_left = 1
    /\ InitAggregator
    /\ passed \in BOOLEAN
    /\ graph_in \in (IF passed THEN FoldInputs ELSE {<<>>})
    /\ adjacency = <<>>
    /\ edge_latencies = <<>>
    /\ built = {}

NextFold ==
    \/ CallRunParallel
    \/ \E i \in Tasks : TracerRun(i)
    \/ \E i \in Tasks : Collect(i)
    \/ ParallelReturn
    \/ BuildAdjacency
    \/ BuildLatency

SpecFold == InitFold /\ [][NextFold]_vars

\* One call of run or run_parallel whose traces run probe by probe against
\* every kind of packet, with the clock advancing, and then the derivations
\* on the ResultSet the aggregator stored.
InitDerive ==
    /\ env = "wide"
    /\ calls_left = 1
    /\ InitAggregator
    /\ passed = FALSE
    /\ graph_in = <<>>
    /\ adjacency = <<>>
    /\ edge_latencies = <<>>
    /\ built = {}

NextDerive ==
    \/ CallRun
    \/ RunStore
    \/ RunReturn
    \/ CallRunParallel
    \/ \E i \in Tasks : Collect(i)
    \/ ParallelReturn
    \/ \E i \in Tasks : TraceStep(i)
    \/ \E i \in Tasks : StrayPacket(i)
    \/ BuildAdjacency
    \/ BuildLatency

SpecDerive == InitDerive /\ [][NextDerive]_vars

\* One call of run_parallel on a new NetworkTopologer, the traces of its
\* tasks interleaved step by step, the operating system refusing nothing.
NextTasks ==
    \/ CallRunParallel
    \/ \E i \in Tasks : Collect(i)
    \/ ParallelReturn
    \/ \E i \in Tasks : TraceStep(i)

SpecTasks == Init /\ [][NextTasks]_vars

\* run of one destination that no probe reaches and no send to which
\* fails; the calling thread and the trace keep running.
InitLost ==
    /\ env \in {"lost", "routed"}
    /\ calls_left = 1
    /\ InitAggregator
    /\ NoGraphs

NextLost ==
    \/ CallRun
    \/ RunStore
    \/ \E i \in Tasks : TraceStep(i)
    \/ \E i \in Tasks : SetTtlFails(i)

SpecLost == InitLost /\ [][NextLost]_vars /\ WF_vars(NextLost)

\* ------------------------------------------------------------- claims
\* The orchestrator has stored the outcome of trace i.
Stored(i) ==
    \/ op = "run" /\ idx > i
    \/ op = "run_parallel" /\ i \in collected

\* Trace i ended with one of the failures the orchestrator catches.
FailedCaught(i) == tpc[i] = "failed" /\ exc[i] \in TracerouteErrors

OnlyTask(i) == \A j \in Tasks : j # i => dests[j] # dests[i]

\* C1: a trace that fails by name resolution, raw-socket denial or a probe
\* send failure maps its destination to the empty PathResult; such a failure
\* never ends the batch (only an exception that is no TracerouteError does);
\* a call that returns has run every trace and returns a key for every
\* destination, the traces that ended well mapped to their hops.
C1_PartialFailure ==
    /\ \A i \in Tasks :
          Stored(i) /\ FailedCaught(i) /\ OnlyTask(i)
              => DictHas(results, dests[i]) /\ DictGet(results, dests[i]) = <<>>
    /\ mpc \in {"raising", "raised"}
          => \E j \in Tasks : tpc[j] = "failed" /\ exc[j] = "OSError"
    /\ \A c \in DOMAIN returned :
          \A j \in DOMAIN returned[c].dests :
              DictHas(returned[c].value, returned[c].dests[j])
    /\ mpc = "idle" /\ returned # <<>>
          => \A i \in Tasks :
                /\ Finished(i)
                /\ tpc[i] = "done" /\ OnlyTask(i)
                      => DictGet(results, dests[i]) = hops[i]

\* C1 witness: a returned batch in which one trace failed to send after it
\* had recorded a hop and maps to the empty list, another maps to its hops.
C1_Witness ==
    /\ mpc = "idle" /\ returned # <<>>
    /\ \E i, j \in Tasks :
          /\ tpc[i] = "failed" /\ exc[i] = "TracerouteError" /\ hops[i] # <<>>
          /\ DictGet(results, dests[i]) = <<>>
          /\ tpc[j] = "done" /\ DictGet(results, dests[j]) = hops[j]
          /\ hops[j] # <<>>

IndexedFromOne(path) == \A k \in DOMAIN path : path[k][1] = k

\* C2: at every point of every trace, and in every stored PathResult, the
\* k-th recorded hop has hop_index k.
C2_HopIndices ==
    /\ \A i \in Tasks : IndexedFromOne(hops[i])
    /\ \A k \in DOMAIN results : IndexedFromOne(results[k][2])

\* C2 witness: a returned PathResult of two hops.
C2_Witness ==
    \E k \in DOMAIN results : Len(results[k][2]) = 2

\* Trace i is between two probes, or has returned, after recording a hop.
Recorded(i) == tpc[i] \in {"send", "done"} /\ hops[i] # <<>>

\* The hop-limit of the probe whose hop trace i recorded last.
ProbedTtl(i) == IF tpc[i] = "done" THEN ttl[i] ELSE ttl[i] - 1

LastHop(i) == hops[i][Len(hops[i])]

\* C3: after a reply at hop-limit k the hop (k, address, elapsed) is
\* appended, and the trace has ended exactly when the address is the
\* resolved destination or the reply type is 3; otherwise the next probe
\* uses hop-limit k + 1.
C3_ReplyRecorded ==
    \A i \in Tasks :
        Recorded(i) /\ addr[i] # None =>
            /\ LastHop(i) = <<ProbedTtl(i), addr[i], rtt_ms[i]>>
            /\ tpc[i] = "done" <=> (addr[i] = dest_ip[i] \/ icmp_type[i] = 3)
            /\ tpc[i] = "send" => ttl[i] = LastHop(i)[1] + 1

\* C3 witness: a trace that went on after a first reply and ended at the
\* second on a type 3 reply of a router.
C3_Witness ==
    \E i \in Tasks :
        /\ tpc[i] = "done" /\ Len(hops[i]) = 2
        /\ hops[i][1][2] # None
        /\ addr[i] # dest_ip[i] /\ icmp_type[i] = 3

\* C4 (as claimed): when the wait ended without a packet of type 3 or 11,
\* the hop recorded is (hop_limit, absent, absent) and the trace goes on.
C4_NoReplyRecorded ==
    \A i \in Tasks :
        Recorded(i) /\ icmp_type[i] \notin {3, 11} =>
            /\ LastHop(i) = <<ProbedTtl(i), None, NoInt>>
            /\ tpc[i] = "send"

\* The message type the claim reads in a packet: the byte at offset
\* (low nibble of byte 0) x 4, when the packet holds 20 bytes and the four
\* bytes at that offset.
TypeAtHeaderLength(data) ==
    LET offset == (data[1] % 16) * 4
    IN IF Len(data) >= 20 /\ Len(data) >= offset + 4
       THEN SubSeq(data, offset + 1, offset + 4)[1]
       ELSE NoInt

\* C5: whenever _receive_reply reads a packet, the type it holds is the byte
\* at offset (low nibble of byte 0) x 4, and the wait ends at once exactly
\* when that type is 11 or 3; a shorter packet or another type leaves it
\* waiting.
C5_Classification ==
    [][\A i \in Tasks :
          RecvPacket(i) =>
              LET type == TypeAtHeaderLength(Head(rq[i]).data)
              IN /\ icmp_type'[i] = type
                 /\ tpc'[i] # "recv" <=> type \in {3, 11}]_vars

\* C5 witness: a packet with no readable type was read and the wait goes on.
C5_Witness ==
    \E i \in Tasks :
        tpc[i] = "recv" /\ addr[i] # None /\ icmp_type[i] = NoInt

\* A PathResult without its round-trip times.
WithoutRtt(path) == [k \in DOMAIN path |-> <<path[k][1], path[k][2]>>]

\* Two ResultSets have the same keys and, RTT aside, the same hops.
SameModuloRtt(r1, r2) ==
    /\ DictKeys(r1) = DictKeys(r2)
    /\ \A key \in DictKeys(r1) :
          WithoutRtt(DictGet(r1, key)) = WithoutRtt(DictGet(r2, key))

\* C6 (as claimed): a call of run and a call of run_parallel with the same
\* destinations, against the same simulated network, return ResultSets with
\* the same keys and the same hop sequences.
C6_ConcurrentEqualsSequential ==
    \A c, d \in DOMAIN returned :
        /\ returned[c].op = "run"
        /\ returned[d].op = "run_parallel"
        /\ returned[c].dests = returned[d].dests
        => SameModuloRtt(returned[c].value, returned[d].value)

\* The elements of a sequence.
Range(seq) == {seq[k] : k \in DOMAIN seq}

\* C7 (as claimed): the ResultSet a call returns holds exactly the
\* destinations given to that call.
C7_RebuiltOnEveryCall ==
    \A c \in DOMAIN returned :
        DictKeys(returned[c].value) = Range(returned[c].dests)

\* C8 (as claimed): once Traceroute.run has returned or raised, no socket
\* of that trace is open.
C8_SocketsReleased ==
    \A i \in Tasks :
        Finished(i) => send_sock[i] # "open" /\ recv_sock[i] # "open"

\* The addresses a hop may hold, None included.
HopAddresses == {h[1] : h \in HopValues}

\* In path, hops i < j hold addresses and every hop between them holds none.
AdjacentPresent(path, i, j) ==
    /\ i < j
    /\ path[i][2] # None /\ path[j][2] # None
    /\ \A m \in (i + 1)..(j - 1) : path[m][2] = None

\* Some PathResult of rs has a next to b among its present addresses.
ObservedEdge(rs, a, b) ==
    \E k \in DOMAIN rs :
        \E i, j \in DOMAIN rs[k][2] :
            /\ AdjacentPresent(rs[k][2], i, j)
            /\ rs[k][2][i][2] = a /\ rs[k][2][j][2] = b

\* C9: build_adjacency holds the edge a -> b exactly when a and b are
\* consecutive present addresses of some PathResult, hops without address
\* being bridged.
C9_Adjacency ==
    "adjacency" \in built =>
        /\ DOMAIN adjacency \subseteq HopAddresses
        /\ \A a \in DOMAIN adjacency : adjacency[a] \subseteq HopAddresses
        /\ \A a, b \in HopAddresses :
              (a \in DOMAIN adjacency /\ b \in adjacency[a])
                  <=> ObservedEdge(graph_in, a, b)

\* C9 witness: a path A, timeout, B gave the edge A -> B, which a second
\* path holds too.
C9_Witness ==
    /\ "adjacency" \in built
    /\ Len(graph_in) = 2
    /\ WithoutRtt(graph_in[1][2]) = <<<<1, "A">>, <<2, None>>, <<3, "B">>>>
    /\ WithoutRtt(graph_in[2][2]) = <<<<1, "A">>, <<2, "B">>>>
    /\ adjacency = ("A" :> {"B"})

\* In path, hops i < j hold address and RTT and no hop between them holds both.
AdjacentTimed(path, i, j) ==
    /\ i < j
    /\ path[i][2] # None /\ path[i][3] # NoInt
    /\ path[j][2] # None /\ path[j][3] # NoInt
    /\ \A m \in (i + 1)..(j - 1) : path[m][2] = None \/ path[m][3] = NoInt

\* The places <<k, i, j>> of rs where the pair (a, b) has the RTT delta v.
PairsWithDelta(rs, a, b, v) ==
    UNION { { <<k, p[1], p[2]>> :
                p \in { q \in (DOMAIN rs[k][2]) \X (DOMAIN rs[k][2]) :
                          /\ rs[k][2][q[1]][2] = a /\ rs[k][2][q[2]][2] = b
                          /\ AdjacentTimed(rs[k][2], q[1], q[2])
                          /\ rs[k][2][q[2]][3] - rs[k][2][q[1]][3] = v } } :
            k \in DOMAIN rs }

Occurrences(seq, v) == Cardinality({k \in DOMAIN seq : seq[k] = v})

\* The sample list of an edge, empty when the edge is no key.
SamplesOf(lat, edge) == IF edge \in DOMAIN lat THEN lat[edge] ELSE <<>>

\* The RTT deltas two hops of HopValues can have.
Deltas == { h[2] - g[2] : g, h \in {x \in HopValues : x[2] # NoInt} }

\* C10: the sample list of (a, b) holds the delta next.rtt - current.rtt of
\* every consecutive pair (a, b) of the hops with address and RTT, once per
\* pair, when that delta is > 0, and nothing else; an edge without such a
\* pair is no key.
C10_EdgeLatency ==
    "latency" \in built =>
        /\ DOMAIN edge_latencies \subseteq HopAddresses \X HopAddresses
        /\ \A a, b \in HopAddresses :
              LET samples == SamplesOf(edge_latencies, <<a, b>>)
              IN /\ \A k \in DOMAIN samples : samples[k] \in Deltas
                 /\ \A v \in Deltas :
                       Occurrences(samples, v) =
                           IF v > 0
                           THEN Cardinality(PairsWithDelta(graph_in, a, b, v))
                           ELSE 0
                 /\ <<a, b>> \in DOMAIN edge_latencies => samples # <<>>

\* C10 witness: a pair whose first RTT is 0 gave a sample, a pair with
\* delta 0 and a pair with a negative delta gave none.
C10_Witness ==
    /\ "latency" \in built
    /\ Len(graph_in) = 2
    /\ graph_in[1][2] = <<<<1, "A", 0>>, <<2, "B", 20>>, <<3, "A", 10>>>>
    /\ graph_in[2][2] = <<<<1, "A", 0>>, <<2, "A", 0>>>>
    /\ edge_latencies = (<<"A", "B">> :> <<20>>)

\* The limit the claim gives run_parallel: the workers argument when one is
\* given (a count of at least 1), else the smaller of the destination
\* count and 32.
ClaimedLimit(w, n) ==
    IF w # NoInt /\ w >= 1 THEN w ELSE IF n < 32 THEN n ELSE 32

\* A destination list of n destinations.
ListOfLen(n) == [k \in 1..n |-> "h1"]

\* C11: during run_parallel the number of traces in progress never exceeds
\* the limit; without a workers argument the pool of a list of n >= 1
\* destinations has min(n, 32) workers (evaluated, when the pool is
\* created, for lists of up to 33 destinations);
\* with the empty list the call can only return, and returns the empty
\* ResultSet.
C11_BoundedWorkers ==
    /\ op = "run_parallel" =>
          /\ Cardinality(Running) <= ClaimedLimit(workers_arg, Len(dests))
          /\ dests # <<>> => max_workers = ClaimedLimit(workers_arg, Len(dests))
          /\ dests = <<>> =>
                /\ Tasks = {} /\ results = <<>> /\ mpc \in {"collect", "idle"}
                /\ mpc = "collect" => ENABLED ParallelReturn
    /\ (op = "run_parallel" /\ \A i \in Tasks : tpc[i] = "new") =>
          \A n \in 1..(DefaultWorkerCap + 1) :
              MaxWorkers(NoInt, ListOfLen(n)) = ClaimedLimit(NoInt, n)
    /\ \A c \in DOMAIN returned :
          returned[c].op = "run_parallel" /\ returned[c].dests = <<>>
              => returned[c].value = <<>>

\* C11 witness: a pool of one worker holds back the second of two
\* destinations while the first is being traced.
C11_Witness ==
    /\ op = "run_parallel" /\ workers_arg = 1 /\ Len(dests) = 2
    /\ Cardinality(Running) = 1
    /\ \E j \in Tasks : tpc[j] = "new"

\* C12 (as claimed): in a returned batch, what the caller sees for a
\* destination whose raw socket was denied differs from what it sees for a
\* destination that did not resolve.
C12_DeniedDistinct ==
    mpc = "idle" /\ returned # <<>> =>
        \A i, j \in Tasks :
            /\ exc[i] = "TraceroutePermissionError"
            /\ exc[j] = "DNSResolveError"
            => DictGet(results, dests[i]) # DictGet(results, dests[j])

\* Trace i resolved, got its sockets and every probe it sent timed out.
OnlyTimeouts(i) ==
    /\ hops[i] # <<>>
    /\ \A k \in DOMAIN hops[i] : hops[i][k][2] = None

\* C13 (as claimed): the entry stored for a destination that resolved and
\* got only timeouts holds hops with absent addresses, and so differs from
\* the empty PathResult of a destination that never resolved or never got
\* its raw socket.
C13_TimeoutsDistinguishable ==
    \A i \in Tasks :
        Stored(i) /\ OnlyTask(i) /\ OnlyTimeouts(i) =>
            /\ DictGet(results, dests[i]) # <<>>
            /\ \E k \in DOMAIN DictGet(results, dests[i]) :
                   DictGet(results, dests[i])[k][2] = None

\* The ResultSet rs with its entries in every order: what run_parallel
\* stores when the same traces complete in another order.
AllOrders(rs) ==
    { [k \in DOMAIN rs |-> rs[f[k]]] : f \in Permutations(DOMAIN rs) }

\* run_parallel has returned and the derivation name was called afterwards
\* on the ResultSet it stored.
DerivedFromStored(name) ==
    /\ ~passed /\ name \in built
    /\ mpc = "idle" /\ returned # <<>>
    /\ graph_in = results

\* Every task of the returned batch is stored under its destination.
StoredByKey ==
    mpc = "idle" /\ returned # <<>> =>
        /\ DictKeys(results) = Range(dests)
        /\ \A i \in Tasks : DictGet(results, dests[i]) = StoredHops(i)

\* Two edge-latency mappings have the same keys and, for every key, the
\* same samples the same number of times.
SameSamples(l1, l2) ==
    /\ DOMAIN l1 = DOMAIN l2
    /\ \A e \in DOMAIN l1 :
          \A v \in Range(l1[e]) \cup Range(l2[e]) :
              Occurrences(l1[e], v) = Occurrences(l2[e], v)

\* C14 (as claimed): the ResultSet of run_parallel holds the hops of every
\* destination whatever the order of completion, and the adjacency mapping
\* and the edge-latency mapping, sample lists included, are those of the
\* same hop sequences completed in any other order.
C14_OrderIndependent ==
    /\ StoredByKey
    /\ DerivedFromStored("adjacency") =>
          \A rs \in AllOrders(results) : adjacency = build_adjacency(rs)
    /\ DerivedFromStored("latency") =>
          \A rs \in AllOrders(results) :
              edge_latencies = build_adjacency_with_latency(rs)

\* C14 (amended): as above, the sample list of an edge being the same up
\* to the order of its samples.
C14_OrderIndependentSamples ==
    /\ StoredByKey
    /\ DerivedFromStored("adjacency") =>
          \A rs \in AllOrders(results) : adjacency = build_adjacency(rs)
    /\ DerivedFromStored("latency") =>
          \A rs \in AllOrders(results) :
              SameSamples(edge_latencies, build_adjacency_with_latency(rs))

\* C14 witness: h2 completed before h1, both paths hold the edge A -> B,
\* and its samples stand in the order of completion.
C14_Witness ==
    /\ DerivedFromStored("latency") /\ DerivedFromStored("adjacency")
    /\ dests = <<"h1", "h2">>
    /\ results[1][1] = "h2"
    /\ edge_latencies = (<<"A", "B">> :> <<20, 10>>)
    /\ adjacency = ("A" :> {"B"})

EndedAtTtlLimit(i) ==
    /\ tpc[i] = "failed" /\ exc[i] = "OSError"
    /\ ttl[i] = IpTtlMax + 1
    /\ Len(probes[i]) = IpTtlMax /\ probes[i][IpTtlMax][1] = IpTtlMax
    /\ Len(hops[i]) = IpTtlMax /\ hops[i][IpTtlMax][1] = IpTtlMax

C17_OneProbePerHop ==
    \A i \in Tasks :
        /\ \A k \in DOMAIN probes[i] : probes[i][k] = <<k, port + k>>
        /\ Len(probes[i]) = Len(hops[i]) + (IF tpc[i] = "recv" THEN 1 ELSE 0)

\* C17 witness: the first probe got no reply, and the second probe, of
\* hop-limit 2, is awaiting its reply.
C17_Witness ==
    \E i \in Tasks :
        /\ tpc[i] = "recv"
        /\ hops[i] = << <<1, None, NoInt>> >>
        /\ probes[i] = << <<1, port + 1>>, <<2, port + 2>> >>

\* The traces that hold an open socket.
HoldingSockets ==
    {i \in Tasks : send_sock[i] = "open" \/ recv_sock[i] = "open"}

\* C18: in run the trace of a destination starts only when the trace of
\* every destination before it in the list has ended and its result is
\* stored, and at most one trace holds open sockets.
C18_OneAtATime ==
    op = "run" =>
        /\ \A i \in Tasks :
              Started(i) =>
                  /\ i <= idx
                  /\ \A j \in 1..(i - 1) :
                        /\ Finished(j)
                        /\ DictHas(results, dests[j])
                        /\ DictGet(results, dests[j]) = StoredHops(j)
        /\ Cardinality(HoldingSockets) <= 1

\* C18 witness: the first trace is stored with its hops and closed, the
\* second holds its sockets and awaits a reply.
C18_Witness ==
    /\ op = "run" /\ Len(dests) = 2 /\ idx = 2
    /\ tpc[1] = "done" /\ DictGet(results, dests[1]) = hops[1]
    /\ tpc[2] = "recv" /\ HoldingSockets = {2}

\* C19: a trace whose name resolution failed has opened no socket and sent
\* no probe; a trace whose raw socket was denied has sent no probe and
\* holds no open socket; a trace about to send a probe or awaiting its
\* reply has resolved its destination and holds both sockets open, and
\* only such a trace has sent probes.
C19_ResolveSocketsProbe ==
    \A i \in Tasks :
        /\ exc[i] = "DNSResolveError" =>
              /\ send_sock[i] = "unset" /\ recv_sock[i] = "unset"
              /\ probes[i] = <<>>
        /\ exc[i] = "TraceroutePermissionError" =>
              /\ send_sock[i] # "open" /\ recv_sock[i] # "open"
              /\ probes[i] = <<>>
        /\ tpc[i] \in {"send", "recv"} =>
              /\ dest_ip[i] # None
              /\ send_sock[i] = "open" /\ recv_sock[i] = "open"
        /\ probes[i] # <<>> =>
              /\ dest_ip[i] # None
              /\ send_sock[i] # "unset" /\ recv_sock[i] # "unset"

\* C19 witness: in one batch a destination did not resolve, and the raw
\* socket of another was denied after it had resolved.
C19_Witness ==
    \E i, j \in Tasks :
        /\ exc[i] = "DNSResolveError"
        /\ exc[j] = "TraceroutePermissionError" /\ dest_ip[j] # None

\* C20: while _receive_reply waits, the time it measures against the
\* timeout is the time since the call began, whatever packets it has read,
\* and is below the timeout; a packet is only read before the timeout has
\* passed, and at the first reading of the clock at or past it, or when
\* select has used up the time left, the call returns.
C20_WaitBounded ==
    [][\A i \in Tasks :
          /\ tpc'[i] = "recv" =>
                /\ elapsed'[i] = waited'[i]
                /\ waited'[i] < timeout
          /\ (tpc[i] = "recv" /\ tpc'[i] = "recv") => waited'[i] >= waited[i]
          /\ RecvPacket(i) =>
                /\ waited[i] * 1000 <= rtt_ms'[i]
                /\ rtt_ms'[i] < timeout * 1000
          /\ (tpc[i] = "recv" /\ waited[i] + 1 >= timeout) =>
                ENABLED RecvTimeout(i)]_vars

\* C20 witness: a second after the call began a stray packet was read, the
\* wait goes on with the same deadline and more packets are queued.
C20_Witness ==
    \E i \in Tasks :
        /\ tpc[i] = "recv"
        /\ waited[i] = 1 /\ elapsed[i] = 1
        /\ addr[i] = "X" /\ icmp_type[i] = 0
        /\ Len(rq[i]) = MaxQueue

\* The sequence q starts with the sequence p.
IsPrefix(p, q) == Len(p) <= Len(q) /\ SubSeq(q, 1, Len(p)) = p

\* Trace j keeps, over a step, everything that is its own: its tracer's
\* position, locals and hops, its sockets, and the packets queued on its
\* raw socket, to which the host may only have added.
Untouched(j) ==
    /\ tpc'[j] = tpc[j] /\ exc'[j] = exc[j] /\ dest_ip'[j] = dest_ip[j]
    /\ ttl'[j] = ttl[j] /\ hops'[j] = hops[j] /\ probes'[j] = probes[j]
    /\ addr'[j] = addr[j] /\ icmp_type'[j] = icmp_type[j]
    /\ rtt_ms'[j] = rtt_ms[j] /\ elapsed'[j] = elapsed[j]
    /\ send_sock'[j] = send_sock[j] /\ recv_sock'[j] = recv_sock[j]
    /\ IsPrefix(rq[j], rq'[j])

\* C21: during run_parallel a step that changes what belongs to one task
\* (a step of its trace) changes nothing that belongs to another task (it
\* neither takes a packet from its raw socket nor closes its sockets) and
\* does not write the ResultSet; the ResultSet is written only by the
\* calling thread when it collects a task that has ended, once for every
\* task.
C21_NothingShared ==
    [][op = "run_parallel" =>
          /\ \A i \in Tasks :
                ~Untouched(i) =>
                    /\ results' = results
                    /\ \A j \in Tasks \ {i} : Untouched(j)
          /\ results' # results =>
                /\ mpc = "collect"
                /\ \E i \in Tasks \ collected :
                      /\ Finished(i)
                      /\ collected' = collected \cup {i}
                      /\ results' = DictSet(results, dests[i], StoredHops(i))]_vars

\* C21 witness: two tasks hold their own open sockets at the same time, one
\* of them about to send, the other awaiting a reply.
C21_Witness ==
    /\ op = "run_parallel"
    /\ \E i, j \in Tasks :
          /\ i # j
          /\ tpc[i] = "recv" /\ tpc[j] = "send" /\ hops[j] # <<>>
          /\ send_sock[i] = "open" /\ recv_sock[i] = "open"
          /\ send_sock[j] = "open" /\ recv_sock[j] = "open"

\* Trace i has returned its hops to the caller of Traceroute.run.
ReturnedPath(i) == tpc[i] = "done" /\ exc[i] = "none"

\* C22: the hops Traceroute.run returns are not empty, the last of them has
\* an address, the resolved destination address stands at no position but
\* the last, and a hop has an address exactly when it has a round-trip time.
C22_ReturnedPathShape ==
    \A i \in Tasks :
        ReturnedPath(i) =>
            /\ hops[i] # <<>>
            /\ LastHop(i)[2] # None
            /\ \A k \in 1..(Len(hops[i]) - 1) : hops[i][k][2] # dest_ip[i]
            /\ \A k \in DOMAIN hops[i] :
                  hops[i][k][2] # None <=> hops[i][k][3] # NoInt

\* C22 witness: a returned path of two hops, the first without a reply, the
\* last from the resolved destination.
C22_Witness ==
    \E i \in Tasks :
        /\ ReturnedPath(i)
        /\ Len(hops[i]) = 2
        /\ hops[i][1][2] = None
        /\ hops[i][2][2] = dest_ip[i] /\ hops[i][2][3] # NoInt

\* Both derivations were called on the ResultSet that run or run_parallel
\* stored and returned.
BothDerived ==
    /\ DerivedFromStored("adjacency")
    /\ DerivedFromStored("latency")

\* C23: derived from one ResultSet that run or run_parallel produced, every
\* key (a, b) of the edge latencies is an edge a -> b of the adjacency,
\* every list of samples is non-empty and holds only values above 0, and
\* every key of the adjacency maps to a non-empty set.
C23_DerivationsAgree ==
    /\ BothDerived =>
          \A e \in DOMAIN edge_latencies :
              e[1] \in DOMAIN adjacency /\ e[2] \in adjacency[e[1]]
    /\ DerivedFromStored("latency") =>
          \A e \in DOMAIN edge_latencies :
              /\ edge_latencies[e] # <<>>
              /\ \A k \in DOMAIN edge_latencies[e] : edge_latencies[e][k] > 0
    /\ DerivedFromStored("adjacency") =>
          \A a \in DOMAIN adjacency : adjacency[a] # {}

\* C23 witness: both derivations of a stored path give the same edge, with
\* a sample.
C23_Witness ==
    /\ BothDerived
    /\ \E e \in DOMAIN edge_latencies :
          e[1] \in DOMAIN adjacency /\ e[2] \in adjacency[e[1]]

====
